---- MODULE Spec2Model ----
(***************************************************************************)
(* A model of the text_on_image crate (src/src/lib.rs): the FontBundle     *)
(* value, the two public entry points, the word wrap loop and the layout   *)
(* loop of position_and_draw.                                              *)
(*                                                                         *)
(* A string is a sequence of one-character strings.  The canvas is the     *)
(* ordered log of the draw calls that reached it.  What rusttype returns   *)
(* for the bundle's font at the bundle's scale is the record `metrics`:    *)
(* an advance per glyph in units of 1/upp pixel and a line height.  Pair   *)
(* kerning is zero, as in the monospace font the tests load.  Widths,       *)
(* heights and coordinates stay far inside u32 and i32, so the arithmetic  *)
(* is that of the integers.                                                *)
(***************************************************************************)
EXTENDS Integers, Sequences, FiniteSets, TLC

VARIABLES
    font_bundle,    \* the FontBundle (scale, color), or NoBundle before new
    ops,            \* number of FontBundle calls made so far
    last_call,      \* the FontBundle call made last and its argument
    metrics,        \* glyph advances and line height of the font at the scale
    entry,          \* which public entry point the caller uses
    text,           \* argument text
    wrap_behavior,  \* argument wrap_behavior
    horizontal_justify, vertical_anchor,      \* arguments
    pixels_from_left, pixels_from_top,        \* arguments
    pc,             \* position of the call in the code
    panicked,       \* which panic!, if any, ended the call
    canvas,         \* draw calls that reached the image, in order
    lines,          \* text_on_image: lines (Vec<&str>)
    lines_altered,  \* text_on_image: lines_altered (Vec<String>)
    hyphenated,     \* for each element of lines_altered: was it pushed with a hyphen appended
    line_idx,       \* text_on_image: number of logical lines the outer for loop has finished
    words,          \* text_on_image: words of the current line not yet taken by the inner for loop
    buffer,         \* text_on_image: buffer
    pd_lines,       \* position_and_draw: lines
    current_line    \* position_and_draw: current_line

vars == <<font_bundle, ops, last_call, metrics, entry, text, wrap_behavior,
          horizontal_justify, vertical_anchor, pixels_from_left, pixels_from_top,
          pc, panicked, canvas, lines, lines_altered, hyphenated, line_idx,
          words, buffer, pd_lines, current_line>>

-----------------------------------------------------------------------------
(* Bounds of the model *)

MaxLen == 4         \* longest input text, in characters
MaxAdvance == 2     \* largest glyph advance, in units of 1/upp pixel
MaxUnits == 2       \* largest number of advance units per pixel
MaxWidth == 3       \* largest max_width of WrapBehavior::Wrap
MaxBlock == 3       \* most lines handed directly to position_and_draw
MaxLineLen == 2     \* longest line handed directly to position_and_draw
MaxHeight == 3      \* largest line height
MaxScale == 2       \* largest scale factor
MaxOps == 3         \* most FontBundle calls in one run

-----------------------------------------------------------------------------
(* Strings *)

SP == " "
NL == "\n"
HYPHEN == "-"
Letters == {"a", "m"}
Whitespace == {SP, NL}
Alphabet == Letters \cup Whitespace
Glyphs == Letters \cup {SP, HYPHEN}

SeqsUpTo(S, n) == UNION {[1..k -> S] : k \in 0..n}

RECURSIVE Concat(_)
Concat(ss) == IF ss = <<>> THEN <<>> ELSE Head(ss) \o Concat(Tail(ss))

\* str::trim: drop leading and trailing whitespace
RECURSIVE TrimStart(_)
TrimStart(s) ==
    IF s # <<>> /\ Head(s) \in Whitespace THEN TrimStart(Tail(s)) ELSE s

RECURSIVE TrimEnd(_)
TrimEnd(s) ==
    IF s # <<>> /\ s[Len(s)] \in Whitespace
    THEN TrimEnd(SubSeq(s, 1, Len(s) - 1)) ELSE s

\* Trim with the trailing whitespace left in place
TrimLeadingOnly(s) == TrimStart(s)

Trim(s) == TrimEnd(TrimStart(s))

\* str::lines: the pieces between line feeds; a final line feed ends the last
\* line and starts no further one, so the empty text has no line at all.
RECURSIVE LinesFrom(_, _, _)
LinesFrom(s, cur, acc) ==
    IF s = <<>> THEN (IF cur = <<>> THEN acc ELSE Append(acc, cur))
    ELSE IF Head(s) = NL THEN LinesFrom(Tail(s), <<>>, Append(acc, cur))
    ELSE LinesFrom(Tail(s), Append(cur, Head(s)), acc)

StrLines(s) == LinesFrom(s, <<>>, <<>>)

\* text.as_ref().lines().map(|line| line.trim()).collect()
TrimmedLines(s) == LET ls == StrLines(s) IN [i \in 1..Len(ls) |-> Trim(ls[i])]

\* str::split_whitespace: the maximal runs of non-whitespace characters
RECURSIVE WordsFrom(_, _, _)
WordsFrom(s, cur, acc) ==
    IF s = <<>> THEN (IF cur = <<>> THEN acc ELSE Append(acc, cur))
    ELSE IF Head(s) \in Whitespace
         THEN WordsFrom(Tail(s), <<>>, IF cur = <<>> THEN acc ELSE Append(acc, cur))
         ELSE WordsFrom(Tail(s), Append(cur, Head(s)), acc)

SplitWhitespace(s) == WordsFrom(s, <<>>, <<>>)

-----------------------------------------------------------------------------
(* Metrics *)

RECURSIVE SumAdvance(_, _)
SumAdvance(m, s) ==
    IF s = <<>> THEN 0 ELSE m.advance[Head(s)] + SumAdvance(m, Tail(s))

\* get_text_width: the caret after the last glyph, cast to u32 (the cast drops
\* the fraction); 0 for the empty string
get_text_width(m, s) == IF s = <<>> THEN 0 ELSE SumAdvance(m, s) \div m.upp

\* get_text_height: (ascent - descent + line_gap) as i32
get_text_height(m) == m.height

-----------------------------------------------------------------------------
(* The wrap loop of text_on_image, one word at a time.  A wrap state is the  *)
(* record [buffer, out, hy]: buffer, lines_altered, and for each pushed line *)
(* whether the push appended a hyphen.                                       *)

Joined(buf, word) == buf \o <<SP>> \o word

\* let optional_space_width = if buffer.is_empty() { width(" ") } else { 0 }
optional_space_width(m, buf) ==
    IF buf = <<>> THEN get_text_width(m, <<SP>>) ELSE 0

\* Fits with < for <=: a line that fills max_width exactly does not fit
FitsStrictly(m, max_width, buf, word) ==
    get_text_width(m, Joined(buf, word)) < max_width + optional_space_width(m, buf)

\* the test of the first branch: the word is added to the line
Fits(m, max_width, buf, word) ==
    get_text_width(m, Joined(buf, word)) <= max_width + optional_space_width(m, buf)

\* the test of both character loops: the buffer and a hyphen still fit
HyphenFits(m, max_width, buf) ==
    get_text_width(m, buf \o <<HYPHEN>>) <= max_width

\* if buffer.is_empty() { buffer += word } else { buffer = buffer + " " + word }
AddToLine(st, word) ==
    [st EXCEPT !.buffer = IF st.buffer = <<>> THEN word ELSE Joined(st.buffer, word)]

\* one pass of the loop body of the second branch: the character that meets a
\* full buffer starts the next buffer
SplitCharStep(m, max_width, st, c) ==
    IF HyphenFits(m, max_width, st.buffer)
    THEN [st EXCEPT !.buffer = Append(st.buffer, c)]
    ELSE [buffer |-> <<c>>,
          out |-> Append(st.out, Append(st.buffer, HYPHEN)),
          hy |-> Append(st.hy, TRUE)]

\* one pass of the loop body of the third branch: the buffer is left empty
\* after the push
FlushCharStep(m, max_width, st, c) ==
    IF HyphenFits(m, max_width, st.buffer)
    THEN [st EXCEPT !.buffer = Append(st.buffer, c)]
    ELSE [buffer |-> <<>>,
          out |-> Append(st.out, Append(st.buffer, HYPHEN)),
          hy |-> Append(st.hy, TRUE)]

\* for word_char in word.chars() { ... } of the second branch
RECURSIVE SplitChars(_, _, _, _)
SplitChars(m, max_width, st, chars) ==
    IF chars = <<>> THEN st
    ELSE SplitChars(m, max_width, SplitCharStep(m, max_width, st, Head(chars)), Tail(chars))

\* for word_char in word.chars() { ... } of the third branch
RECURSIVE FlushChars(_, _, _, _)
FlushChars(m, max_width, st, chars) ==
    IF chars = <<>> THEN st
    ELSE FlushChars(m, max_width, FlushCharStep(m, max_width, st, Head(chars)), Tail(chars))

\* lines_altered.push(buffer); buffer = String::new()
PushBuffer(st) ==
    [buffer |-> <<>>, out |-> Append(st.out, st.buffer), hy |-> Append(st.hy, FALSE)]

Overflows(m, max_width, buf, word) ==
    get_text_width(m, Joined(buf, word)) > max_width

\* which branch of the if / else if / else if chain takes the word
Branch(m, max_width, buf, word) ==
    IF Fits(m, max_width, buf, word) THEN "add"
    ELSE IF Overflows(m, max_width, buf, word) /\ buf = <<>> THEN "split"
    ELSE IF Overflows(m, max_width, buf, word) /\ buf # <<>> THEN "flush"
    ELSE "none"

\* the body of `for word in line.split_whitespace()`: what the pass over one
\* word makes of a wrap state
WrapWord(m, max_width, st, word) ==
    CASE Branch(m, max_width, st.buffer, word) = "add" -> AddToLine(st, word)
      [] Branch(m, max_width, st.buffer, word) = "split" ->
            SplitChars(m, max_width, st, word)
      [] Branch(m, max_width, st.buffer, word) = "flush" ->
            FlushChars(m, max_width, PushBuffer(st), word)
      [] OTHER -> st

-----------------------------------------------------------------------------
(* position_and_draw *)

\* TruncDiv rounding down instead of toward zero
FloorDiv(a, b) == a \div b

\* i32 division truncates toward zero
TruncDiv(a, b) == IF a >= 0 THEN a \div b ELSE -((-a) \div b)

\* vertical_offset with Bottom counting the lines below line i only
vertical_offset_below(anchor, h, i, n) ==
    CASE anchor = "Top" -> h * i
      [] anchor = "Center" -> TruncDiv(h * i - h * (n - i), 2)
      [] anchor = "Bottom" -> -(h * (n - i - 1))

\* let vertical_offset = match vertical_anchor { ... }; h is get_text_height,
\* i is current_line, n is lines_len
vertical_offset(anchor, h, i, n) ==
    CASE anchor = "Top" -> h * i
      [] anchor = "Center" -> TruncDiv(h * i - h * (n - i), 2)
      [] anchor = "Bottom" -> -(h * (n - i))

\* horizontal_offset with Center not halved
horizontal_offset_whole(justify, m, line) ==
    CASE justify = "Left" -> 0
      [] justify = "Center" -> get_text_width(m, line)
      [] justify = "Right" -> get_text_width(m, line)

\* let horizontal_offset = match horizontal_justify { ... }; u32 arithmetic
horizontal_offset(justify, m, line) ==
    CASE justify = "Left" -> 0
      [] justify = "Center" -> get_text_width(m, line) \div 2
      [] justify = "Right" -> get_text_width(m, line)

\* the arguments of draw_text_mut for the line at index i of n
DrawText(m, justify, anchor, left, top, line, i, n) ==
    [op |-> "text",
     x |-> left - horizontal_offset(justify, m, line),
     y |-> top + vertical_offset(anchor, get_text_height(m), i, n),
     text |-> line]

\* imageproc::drawing::draw_cross_mut(image, red, pixels_from_left, pixels_from_top)
DrawCross(left, top) == [op |-> "cross", x |-> left, y |-> top, text |-> <<>>]

-----------------------------------------------------------------------------
(* FontBundle.  An f32 is a record: nan, or the number v. *)

NaN == [nan |-> TRUE, v |-> 0]
F32(n) == [nan |-> FALSE, v |-> n]
Floats == {NaN} \cup {F32(n) : n \in -1..MaxScale}
Scales == [x : Floats, y : Floats]
Colors == {"green", "red"}
NoBundle == [scale |-> [x |-> F32(0), y |-> F32(0)], color |-> "none"]

\* f32 comparison with 0.: every comparison with NaN is false
LeZero(f) == ~f.nan /\ f.v <= 0
GtZero(f) == ~f.nan /\ f.v > 0

\* if scale_.x <= 0. || scale_.y <= 0. { panic!(...) }
ScaleRejected(scale_) == LeZero(scale_.x) \/ LeZero(scale_.y)

BundleVars == <<font_bundle, ops, last_call>>
CallVars == <<metrics, entry, text, wrap_behavior, horizontal_justify,
              vertical_anchor, pixels_from_left, pixels_from_top>>
WrapVars == <<lines, lines_altered, hyphenated, line_idx, words, buffer>>
DrawVars == <<pd_lines, current_line>>

\* FontBundle::new
New(scale_, color_) ==
    /\ pc = "main"
    /\ font_bundle = NoBundle
    /\ ops < MaxOps
    /\ ops' = ops + 1
    /\ last_call' = [op |-> "new", scale |-> scale_]
    /\ IF ScaleRejected(scale_)
       THEN /\ panicked' = "scale"
            /\ pc' = "panic"
            /\ UNCHANGED font_bundle
       ELSE /\ font_bundle' = [scale |-> scale_, color |-> color_]
            /\ UNCHANGED <<pc, panicked>>
    /\ UNCHANGED <<CallVars, canvas, WrapVars, DrawVars>>

\* FontBundle::set_scale
SetScale(scale_) ==
    /\ pc = "main"
    /\ font_bundle # NoBundle
    /\ ops < MaxOps
    /\ ops' = ops + 1
    /\ last_call' = [op |-> "set_scale", scale |-> scale_]
    /\ IF ScaleRejected(scale_)
       THEN /\ panicked' = "scale"
            /\ pc' = "panic"
            /\ UNCHANGED font_bundle
       ELSE /\ font_bundle' = [font_bundle EXCEPT !.scale = scale_]
            /\ UNCHANGED <<pc, panicked>>
    /\ UNCHANGED <<CallVars, canvas, WrapVars, DrawVars>>

\* FontBundle::set_color
SetColor(color_) ==
    /\ pc = "main"
    /\ font_bundle # NoBundle
    /\ ops < MaxOps
    /\ ops' = ops + 1
    /\ last_call' = [op |-> "set_color", scale |-> font_bundle.scale]
    /\ font_bundle' = [font_bundle EXCEPT !.color = color_]
    /\ UNCHANGED <<pc, panicked, CallVars, canvas, WrapVars, DrawVars>>

-----------------------------------------------------------------------------
(* The entry points *)

NoWrap == [kind |-> "NoWrap", max_width |-> 0]
Wrap(w) == [kind |-> "Wrap", max_width |-> w]

\* the width of the probe string of the minimum-width check
MinWidth(m) == get_text_width(m, <<"m", "m">>)

\* text_on_image_draw_debug: the cross is drawn, then text_on_image is called
text_on_image_draw_debug ==
    /\ pc = "call"
    /\ entry = "text_on_image_draw_debug"
    /\ canvas' = Append(canvas, DrawCross(pixels_from_left, pixels_from_top))
    /\ pc' = "text_on_image"
    /\ UNCHANGED <<BundleVars, CallVars, panicked, WrapVars, DrawVars>>

\* text_on_image called by the user
CallTextOnImage ==
    /\ pc = "call"
    /\ entry = "text_on_image"
    /\ pc' = "text_on_image"
    /\ UNCHANGED <<BundleVars, CallVars, panicked, canvas, WrapVars, DrawVars>>

\* text_on_image up to the wrap loop: the lines, the match on wrap_behavior,
\* the minimum-width check
text_on_image ==
    /\ pc = "text_on_image"
    /\ lines' = TrimmedLines(text)
    /\ CASE wrap_behavior.kind = "NoWrap" ->
              /\ pd_lines' = lines'
              /\ pc' = "position_and_draw"
              /\ UNCHANGED panicked
         [] wrap_behavior.kind = "Wrap"
              /\ wrap_behavior.max_width < MinWidth(metrics) ->
              /\ panicked' = "max_width"
              /\ pc' = "panic"
              /\ UNCHANGED pd_lines
         [] OTHER ->
              /\ pc' = "for_line"
              /\ UNCHANGED <<panicked, pd_lines>>
    /\ UNCHANGED <<BundleVars, CallVars, canvas, lines_altered, hyphenated,
                   line_idx, words, buffer, current_line>>

WrapState == [buffer |-> buffer, out |-> lines_altered, hy |-> hyphenated]

SetWrapState(st) ==
    /\ buffer' = st.buffer
    /\ lines_altered' = st.out
    /\ hyphenated' = st.hy

\* for &line in &lines { let mut buffer = String::new(); ...
ForLine ==
    /\ pc = "for_line"
    /\ line_idx < Len(lines)
    /\ buffer' = <<>>
    /\ words' = SplitWhitespace(lines[line_idx + 1])
    /\ pc' = "for_word"
    /\ UNCHANGED <<BundleVars, CallVars, panicked, canvas, lines, lines_altered,
                   hyphenated, line_idx, DrawVars>>

\* for word in line.split_whitespace(), first branch: the word is added to
\* the line
AddWord ==
    /\ pc = "for_word"
    /\ words # <<>>
    /\ Branch(metrics, wrap_behavior.max_width, buffer, Head(words)) = "add"
    /\ SetWrapState(AddToLine(WrapState, Head(words)))
    /\ words' = Tail(words)
    /\ UNCHANGED <<BundleVars, CallVars, pc, panicked, canvas, lines, line_idx,
                   DrawVars>>

\* second branch: the buffer is empty and the word is split character by
\* character
SplitWord ==
    /\ pc = "for_word"
    /\ words # <<>>
    /\ Branch(metrics, wrap_behavior.max_width, buffer, Head(words)) = "split"
    /\ SetWrapState(SplitChars(metrics, wrap_behavior.max_width, WrapState,
                               Head(words)))
    /\ words' = Tail(words)
    /\ UNCHANGED <<BundleVars, CallVars, pc, panicked, canvas, lines, line_idx,
                   DrawVars>>

\* third branch: the buffer is pushed, then the word is split character by
\* character
FlushWord ==
    /\ pc = "for_word"
    /\ words # <<>>
    /\ Branch(metrics, wrap_behavior.max_width, buffer, Head(words)) = "flush"
    /\ SetWrapState(FlushChars(metrics, wrap_behavior.max_width,
                               PushBuffer(WrapState), Head(words)))
    /\ words' = Tail(words)
    /\ UNCHANGED <<BundleVars, CallVars, pc, panicked, canvas, lines, line_idx,
                   DrawVars>>

\* lines_altered.push(buffer) at the end of a logical line
EndLine ==
    /\ pc = "for_word"
    /\ words = <<>>
    /\ SetWrapState(PushBuffer(WrapState))
    /\ line_idx' = line_idx + 1
    /\ pc' = "for_line"
    /\ UNCHANGED <<BundleVars, CallVars, panicked, canvas, lines, words, DrawVars>>

\* after the loop: position_and_draw(image, lines_altered, ...)
WrapDone ==
    /\ pc = "for_line"
    /\ line_idx = Len(lines)
    /\ pd_lines' = lines_altered
    /\ pc' = "position_and_draw"
    /\ UNCHANGED <<BundleVars, CallVars, panicked, canvas, WrapVars, current_line>>

\* one pass of `for &line in &lines` of position_and_draw
DrawLine ==
    /\ pc = "position_and_draw"
    /\ current_line < Len(pd_lines)
    /\ canvas' = Append(canvas,
                        DrawText(metrics, horizontal_justify, vertical_anchor,
                                 pixels_from_left, pixels_from_top,
                                 pd_lines[current_line + 1], current_line,
                                 Len(pd_lines)))
    /\ current_line' = current_line + 1
    /\ UNCHANGED <<BundleVars, CallVars, pc, panicked, WrapVars, pd_lines>>

\* position_and_draw and the entry point return
Return ==
    /\ pc = "position_and_draw"
    /\ current_line = Len(pd_lines)
    /\ pc' = "done"
    /\ UNCHANGED <<BundleVars, CallVars, panicked, canvas, WrapVars, DrawVars>>

-----------------------------------------------------------------------------
(* Initial states and specifications *)

Texts == SeqsUpTo(Alphabet, MaxLen)

\* what the font gives at the bundle's scale
Metrics(heights) ==
    [advance : [Glyphs -> 1..MaxAdvance], upp : 1..MaxUnits, height : heights]

ValidBundle == [scale |-> [x |-> F32(1), y |-> F32(1)], color |-> "green"]

\* a call of an entry point is about to be made with a constructed bundle
InitCall(entries, texts, wraps, ms, justifies, anchors) ==
    /\ font_bundle = ValidBundle
    /\ ops = 0
    /\ last_call = [op |-> "new", scale |-> ValidBundle.scale]
    /\ metrics \in ms
    /\ entry \in entries
    /\ text \in texts
    /\ wrap_behavior \in wraps
    /\ horizontal_justify \in justifies
    /\ vertical_anchor \in anchors
    /\ pixels_from_left = 400
    /\ pixels_from_top = 800
    /\ panicked = "no"
    /\ canvas = <<>>
    /\ lines = <<>>
    /\ lines_altered = <<>>
    /\ hyphenated = <<>>
    /\ line_idx = 0
    /\ words = <<>>
    /\ buffer = <<>>
    /\ current_line = 0

NextPlain ==
    \/ CallTextOnImage
    \/ text_on_image
    \/ ForLine
    \/ AddWord
    \/ SplitWord
    \/ FlushWord
    \/ EndLine
    \/ WrapDone
    \/ DrawLine
    \/ Return

NextCall ==
    \/ text_on_image_draw_debug
    \/ NextPlain

NextNoWrap ==
    \/ text_on_image_draw_debug
    \/ CallTextOnImage
    \/ text_on_image
    \/ DrawLine
    \/ Return

NextLayout ==
    \/ DrawLine
    \/ Return

NextFont ==
    \/ \E scale_ \in Scales, color_ \in Colors : New(scale_, color_)
    \/ \E scale_ \in Scales : SetScale(scale_)
    \/ \E color_ \in Colors : SetColor(color_)

Entries == {"text_on_image", "text_on_image_draw_debug"}
Wraps == {Wrap(w) : w \in 0..MaxWidth}

\* every advance is a whole number of pixels: the width of a string is the
\* sum of the widths of its characters
WholePixels(m) == \A g \in Glyphs : m.advance[g] % m.upp = 0

WholePixelMetrics(heights) == {m \in Metrics(heights) : WholePixels(m)}

\* fonts whose glyphs all have the same advance
MonoMetrics(heights) ==
    {m \in Metrics(heights) : \A g \in Glyphs : m.advance[g] = m.advance["m"]}

\* the font of scenario examples 3 and 4: a glyph is 100 wide, a line 20 high
ExampleMetrics == [advance |-> [g \in Glyphs |-> 100], upp |-> 1, height |-> 20]

\* both entry points with WrapBehavior::Wrap
InitWrap ==
    /\ InitCall(Entries, Texts, Wraps, Metrics({1}), {"Center"}, {"Center"})
    /\ pc = "call"
    /\ pd_lines = <<>>

SpecWrap == InitWrap /\ [][NextCall]_vars

\* text_on_image with WrapBehavior::Wrap and whole-pixel advances
InitAdditive ==
    /\ InitCall({"text_on_image"}, Texts, Wraps, WholePixelMetrics({1}),
                {"Center"}, {"Center"})
    /\ pc = "call"
    /\ pd_lines = <<>>

SpecAdditive == InitAdditive /\ [][NextPlain]_vars

\* both entry points with WrapBehavior::NoWrap
InitNoWrap ==
    /\ InitCall(Entries, Texts, {NoWrap}, Metrics({1}), {"Center"}, {"Center"})
    /\ pc = "call"
    /\ pd_lines = <<>>

SpecNoWrap == InitNoWrap /\ [][NextNoWrap]_vars

Justifies == {"Left", "Center", "Right"}
Anchors == {"Top", "Center", "Bottom"}
BlockLines == SeqsUpTo({"m"}, MaxLineLen)
Blocks == SeqsUpTo(BlockLines, MaxBlock)

\* position_and_draw entered with a block of lines
InitLayout ==
    /\ InitCall({"text_on_image"}, {<<>>}, {NoWrap},
                MonoMetrics(0..MaxHeight) \cup {ExampleMetrics},
                Justifies, Anchors)
    /\ pc = "position_and_draw"
    /\ pd_lines \in Blocks

SpecLayout == InitLayout /\ [][NextLayout]_vars

\* a program that builds a FontBundle and changes it; the canvas may already
\* hold a drawing
InitNoBundle ==
    /\ font_bundle = NoBundle
    /\ ops = 0
    /\ last_call = [op |-> "none", scale |-> NoBundle.scale]
    /\ metrics = ExampleMetrics
    /\ entry = "text_on_image"
    /\ text = <<>>
    /\ wrap_behavior = NoWrap
    /\ horizontal_justify = "Center"
    /\ vertical_anchor = "Center"
    /\ pixels_from_left = 400
    /\ pixels_from_top = 800
    /\ pc = "main"
    /\ panicked = "no"
    /\ canvas \in {<<>>, <<DrawCross(400, 800)>>}
    /\ lines = <<>>
    /\ lines_altered = <<>>
    /\ hyphenated = <<>>
    /\ line_idx = 0
    /\ words = <<>>
    /\ buffer = <<>>
    /\ pd_lines = <<>>
    /\ current_line = 0

SpecFont == InitNoBundle /\ [][NextFont]_vars

-----------------------------------------------------------------------------
(* Properties of the wrap loop *)

\* the wrap loop has ended and handed lines_altered to position_and_draw
WrapFinished ==
    /\ wrap_behavior.kind = "Wrap"
    /\ pc \in {"position_and_draw", "done"}

\* element i of lines_altered without the hyphen its push appended
Unhyphenated(i) ==
    IF hyphenated[i]
    THEN SubSeq(lines_altered[i], 1, Len(lines_altered[i]) - 1)
    ELSE lines_altered[i]

\* the characters of a line that are not the spaces the loop put between words
RECURSIVE WithoutSpaces(_)
WithoutSpaces(s) ==
    IF s = <<>> THEN <<>>
    ELSE IF Head(s) = SP THEN WithoutSpaces(Tail(s))
    ELSE <<Head(s)>> \o WithoutSpaces(Tail(s))

\* C1: content preservation.  When the wrap loop has ended, the lines of
\* lines_altered in order, without the hyphens the loop appended and without
\* the spaces between words, spell the words of the input text in order.
ContentPreserved ==
    WrapFinished =>
        Concat([i \in 1..Len(lines_altered) |-> WithoutSpaces(Unhyphenated(i))])
            = Concat(SplitWhitespace(text))

\* C2: width bound.  When the wrap loop has ended, every line of
\* lines_altered, measured without the hyphen the loop appended, is at most
\* max_width wide, unless it is a single character wider than max_width.
WidthBound ==
    WrapFinished =>
        \A i \in 1..Len(lines_altered) :
            \/ get_text_width(metrics, Unhyphenated(i)) <= wrap_behavior.max_width
            \/ Len(Unhyphenated(i)) = 1

\* every letter followed by a hyphen is at most max_width wide
LetterAndHyphenFit ==
    \A c \in Letters :
        get_text_width(metrics, <<c, HYPHEN>>) <= wrap_behavior.max_width

\* C3: every physical line fits as rendered.  When every letter with a hyphen
\* fits max_width, every line the wrap loop hands to position_and_draw,
\* measured with its hyphen, is at most max_width wide.
RenderedLinesFit ==
    (WrapFinished /\ LetterAndHyphenFit) =>
        \A i \in 1..Len(pd_lines) :
            get_text_width(metrics, pd_lines[i]) <= wrap_behavior.max_width

\* C4: minimum-width precondition.  A max_width below the width of "mm" ends
\* the call with the panic before anything is drawn on the canvas, and a
\* max_width of at least that width never raises the panic.
MinWidthBeforeDrawing ==
    /\ (panicked = "max_width" => canvas = <<>>)
    /\ (pc \in {"for_line", "for_word", "position_and_draw", "done"}
            => panicked # "max_width")
    /\ ((wrap_behavior.kind = "Wrap"
         /\ wrap_behavior.max_width < MinWidth(metrics)
         /\ pc \notin {"call", "text_on_image"}) => panicked = "max_width")

-----------------------------------------------------------------------------
(* Properties of FontBundle *)

ScalePositive(b) == GtZero(b.scale.x) /\ GtZero(b.scale.y)

\* the call just made is new or set_scale with scale.x <= 0 or scale.y <= 0
NonPositiveScaleCall ==
    /\ ops' = ops + 1
    /\ last_call'.op \in {"new", "set_scale"}
    /\ \/ (~last_call'.scale.x.nan /\ last_call'.scale.x.v <= 0)
       \/ (~last_call'.scale.y.nan /\ last_call'.scale.y.v <= 0)

\* C5: FontBundle scale invariant.  After every call of new, set_scale or
\* set_color that returns normally the bundle has scale.x > 0 and scale.y > 0;
\* a call of new or set_scale with a scale factor <= 0 panics, leaves the
\* bundle as it was (none, for new) and leaves the canvas as it was.
ScaleInvariant ==
    [][/\ (panicked' = "no" /\ font_bundle' # NoBundle) => ScalePositive(font_bundle')
       /\ NonPositiveScaleCall =>
            /\ panicked' = "scale"
            /\ font_bundle' = font_bundle
            /\ canvas' = canvas]_vars

-----------------------------------------------------------------------------
(* Properties of WrapBehavior::NoWrap *)

\* the positions of the line feeds of t
Feeds(t) == {i \in 1..Len(t) : t[i] = NL}

\* the position of the k-th line feed of t
Feed(t, k) == CHOOSE i \in Feeds(t) : Cardinality({j \in Feeds(t) : j <= i}) = k

\* the number of logical lines of t: one for every line feed, and one more
\* when characters follow the last line feed
LogicalLineCount(t) ==
    Cardinality(Feeds(t)) + (IF t # <<>> /\ t[Len(t)] # NL THEN 1 ELSE 0)

\* the k-th logical line of t, trimmed: from its first to its last character
\* that is not whitespace
LogicalLine(t, k) ==
    LET first == IF k = 1 THEN 1 ELSE Feed(t, k - 1) + 1
        last == IF k <= Cardinality(Feeds(t)) THEN Feed(t, k) - 1 ELSE Len(t)
        solid == {i \in first..last : t[i] \notin Whitespace}
    IN  IF solid = {} THEN <<>>
        ELSE SubSeq(t, CHOOSE i \in solid : \A j \in solid : i <= j,
                       CHOOSE i \in solid : \A j \in solid : i >= j)

\* the lines of the draw_text_mut calls on the canvas, in order
RECURSIVE DrawnLines(_)
DrawnLines(c) ==
    IF c = <<>> THEN <<>>
    ELSE IF Head(c).op = "text" THEN <<Head(c).text>> \o DrawnLines(Tail(c))
    ELSE DrawnLines(Tail(c))

\* C6: no-wrap identity.  With NoWrap the lines handed to position_and_draw,
\* and the lines drawn when the call returns, are the logical lines of the
\* text, trimmed, in order and in number, whatever their widths.
NoWrapIdentity ==
    wrap_behavior.kind = "NoWrap" =>
        /\ pc \in {"position_and_draw", "done"} =>
            /\ Len(pd_lines) = LogicalLineCount(text)
            /\ \A k \in 1..Len(pd_lines) : pd_lines[k] = LogicalLine(text, k)
        /\ pc = "done" => DrawnLines(canvas) = pd_lines

\* a text with a blank line and a line that had to be trimmed has been drawn
NoWrapIdentityWitness ==
    /\ wrap_behavior.kind = "NoWrap"
    /\ pc = "done"
    /\ text = <<SP, "a", NL, NL>>
    /\ DrawnLines(canvas) = <<<<"a">>, <<>>>>

-----------------------------------------------------------------------------
(* Properties of position_and_draw *)

\* a / 2 rounded to the integer next to it on the side of 0
HalfTowardZero(a) ==
    IF a >= 0
    THEN CHOOSE q \in 0..a : 2 * q <= a /\ a < 2 * q + 2
    ELSE CHOOSE q \in a..0 : 2 * q >= a /\ a > 2 * q - 2

\* the vertical offset of the k-th draw call on the canvas
DrawnOffset(k) == canvas[k].y - pixels_from_top

\* C7: layout origins.  position_and_draw makes one draw call per line, in
\* line order; line i of N (from 0), W wide, in lines H high, is drawn at
\* x = anchor_x - hoff and y = anchor_y + voff, with hoff 0 / W/2 / W for
\* Left / Center / Right and voff H*i / (H*i - H*(N-i))/2 / -H*(N-i) for
\* Top / Center / Bottom.
LayoutOrigins ==
    pc \in {"position_and_draw", "done"} =>
        LET N == Len(pd_lines)
            H == get_text_height(metrics)
        IN  /\ Len(canvas) = current_line
            /\ pc = "done" => Len(canvas) = N
            /\ \A k \in 1..Len(canvas) :
                LET i == k - 1
                    W == get_text_width(metrics, pd_lines[k])
                    hoff == CASE horizontal_justify = "Left" -> 0
                              [] horizontal_justify = "Center" -> W \div 2
                              [] horizontal_justify = "Right" -> W
                    voff == CASE vertical_anchor = "Top" -> H * i
                              [] vertical_anchor = "Center" ->
                                    HalfTowardZero(H * i - H * (N - i))
                              [] vertical_anchor = "Bottom" -> -(H * (N - i))
                IN  /\ canvas[k].op = "text"
                    /\ canvas[k].text = pd_lines[k]
                    /\ canvas[k].x = pixels_from_left - hoff
                    /\ canvas[k].y = pixels_from_top + voff

\* scenario examples 3 and 4: three lines 20 high anchored at Top are drawn at
\* vertical offsets 0, 20, 40, and a line 100 wide justified Right from
\* anchor_x = 400 is drawn at x = 300
LayoutOriginsWitness ==
    /\ pc = "done"
    /\ Len(pd_lines) = 3
    /\ vertical_anchor = "Top"
    /\ horizontal_justify = "Right"
    /\ get_text_height(metrics) = 20
    /\ get_text_width(metrics, pd_lines[1]) = 100
    /\ pixels_from_left = 400
    /\ canvas[1].x = 300
    /\ <<DrawnOffset(1), DrawnOffset(2), DrawnOffset(3)>> = <<0, 20, 40>>

\* C8 as claimed: with Bottom the last line of a block of N >= 2 lines is
\* drawn at vertical offset -H, and the line of a block of one at 0.
BottomLastLineAsClaimed ==
    (pc = "done" /\ vertical_anchor = "Bottom" /\ Len(pd_lines) >= 1) =>
        DrawnOffset(Len(pd_lines)) =
            IF Len(pd_lines) = 1 THEN 0 ELSE -get_text_height(metrics)

\* C8, amended: with Bottom the last line of every block of N >= 1 lines, the
\* block of one line included, is drawn at vertical offset -H.
BottomLastLine ==
    (pc = "done" /\ vertical_anchor = "Bottom" /\ Len(pd_lines) >= 1) =>
        DrawnOffset(Len(pd_lines)) = -get_text_height(metrics)

\* a block of one line of positive height has been drawn from Bottom
BottomLastLineWitness ==
    /\ pc = "done"
    /\ vertical_anchor = "Bottom"
    /\ Len(pd_lines) = 1
    /\ get_text_height(metrics) > 0
    /\ DrawnOffset(1) = -get_text_height(metrics)

\* the top of the first line plus the bottom of the last line, relative to
\* the anchor: 0 when the block is centred on the anchor
CenterSkew ==
    DrawnOffset(1) + DrawnOffset(Len(pd_lines)) + get_text_height(metrics)

\* C9 as claimed: with Center a block of an odd number of lines is centred on
\* the anchor for every line height H >= 0.
CenteredWhenOddAsClaimed ==
    (pc = "done" /\ vertical_anchor = "Center" /\ Len(pd_lines) % 2 = 1) =>
        CenterSkew = 0

\* C9, amended: with Center a block of N >= 2 lines, odd or even, is centred
\* on the anchor for every H >= 0; a block of one line is centred when H is
\* even and is one pixel off (skew 1) when H is odd.
CenteredBlock ==
    (pc = "done" /\ vertical_anchor = "Center" /\ Len(pd_lines) >= 1) =>
        CenterSkew = IF Len(pd_lines) = 1 THEN get_text_height(metrics) % 2 ELSE 0

\* a block of one line of odd height has been drawn from Center, one pixel
\* off the centre
CenteredBlockWitness ==
    /\ pc = "done"
    /\ vertical_anchor = "Center"
    /\ Len(pd_lines) = 1
    /\ get_text_height(metrics) = 3
    /\ DrawnOffset(1) = -1
    /\ CenterSkew = 1

-----------------------------------------------------------------------------
(* Properties of a logical line that fits *)

\* words joined by single spaces
RECURSIVE JoinWords(_)
JoinWords(ws) ==
    IF ws = <<>> THEN <<>>
    ELSE IF Len(ws) = 1 THEN Head(ws)
    ELSE Head(ws) \o <<SP>> \o JoinWords(Tail(ws))

\* the whitespace-normalised form of a line
Normalised(line) == JoinWords(SplitWhitespace(line))

\* the logical line the wrap loop is working on
CurrentLine == lines[line_idx + 1]

\* the words of the current line the loop will have taken after this pass
TakenAfterThisPass ==
    LET ws == SplitWhitespace(CurrentLine)
    IN  SubSeq(ws, 1, Len(ws) - Len(words) + 1)

\* C10: exact fit is not wrapped.  With string width the sum of character
\* widths, while the wrap loop works on a logical line whose normalised form
\* is at most max_width wide, a pass over a word pushes nothing and leaves the
\* buffer the taken words joined by single spaces, and the end of the line
\* pushes one line, the normalised form, with no hyphen.
ExactFitNotWrapped ==
    [][(/\ pc = "for_word"
        /\ WholePixels(metrics)
        /\ get_text_width(metrics, Normalised(CurrentLine)) <= wrap_behavior.max_width)
       => IF words # <<>>
          THEN /\ lines_altered' = lines_altered
               /\ hyphenated' = hyphenated
               /\ buffer' = JoinWords(TakenAfterThisPass)
          ELSE /\ lines_altered' = Append(lines_altered, Normalised(CurrentLine))
               /\ hyphenated' = Append(hyphenated, FALSE)
               /\ line_idx' = line_idx + 1]_vars

\* a line of two words that fills max_width exactly has been pushed whole
ExactFitWitness ==
    /\ pc = "for_line"
    /\ line_idx = 1
    /\ WholePixels(metrics)
    /\ Len(SplitWhitespace(lines[1])) = 2
    /\ get_text_width(metrics, Normalised(lines[1])) = wrap_behavior.max_width
    /\ lines_altered = <<Normalised(lines[1])>>
    /\ hyphenated = <<FALSE>>

-----------------------------------------------------------------------------
(* Properties of a word that does not fit after the buffer *)

\* the next word does not fit after the non-empty buffer
WordOverflowsBuffer ==
    /\ pc = "for_word"
    /\ words # <<>>
    /\ buffer # <<>>
    /\ ~Fits(metrics, wrap_behavior.max_width, buffer, Head(words))

\* the wrap state after the buffer is pushed and the next word is handled as
\* a word arriving at an empty buffer
Reevaluated ==
    WrapWord(metrics, wrap_behavior.max_width, PushBuffer(WrapState), Head(words))

\* C11: flush-then-re-evaluate.  When a word does not fit after a non-empty
\* buffer, the pass pushes the buffer as one line and leaves the lines and the
\* buffer that handling the same word at an empty buffer gives; so, with
\* string width the sum of character widths, a word at most max_width wide is
\* left whole in the buffer and nothing but the old buffer is pushed.
FlushThenReevaluate ==
    [][WordOverflowsBuffer =>
        /\ buffer' = Reevaluated.buffer
        /\ lines_altered' = Reevaluated.out
        /\ hyphenated' = Reevaluated.hy
        /\ (/\ WholePixels(metrics)
            /\ get_text_width(metrics, Head(words)) <= wrap_behavior.max_width)
           => /\ buffer' = Head(words)
              /\ lines_altered' = Append(lines_altered, buffer)]_vars

-----------------------------------------------------------------------------
(* Properties of empty physical lines *)

\* the lines this step pushes onto lines_altered
PushedByStep ==
    {lines_altered'[i] : i \in (Len(lines_altered) + 1)..Len(lines_altered')}

\* C12: empty physical lines mark blank input lines only.  While the wrap
\* loop works on a logical line without words, its one step pushes one empty
\* line; while it works on a logical line with at least one word, no step,
\* the push at the end of the line included, pushes an empty line.
EmptyLinesMarkBlankLines ==
    [][pc = "for_word" =>
        IF SplitWhitespace(CurrentLine) = <<>>
        THEN lines_altered' = Append(lines_altered, <<>>)
        ELSE <<>> \notin PushedByStep]_vars

====
